---- MODULE Spec2Model ----
(***************************************************************************)
(* PEPPOL business-card export splitter (src/peppol_sync.py).              *)
(*                                                                         *)
(* The model follows PeppolSync.process_xml: one forward pass over the     *)
(* input elements, each business card routed to the artifact               *)
(* extracts/<country>/business-cards.<sequence>.xml of its country, with   *)
(* size-triggered rollover, reopen of existing artifacts by cutting the    *)
(* trailing closing tag, and the finalization of the open artifact.        *)
(*                                                                         *)
(* Text is a sequence of one-character strings; a file is the sequence of  *)
(* its bytes (all modelled characters are ASCII, one byte each).  fs holds  *)
(* what has been written to each artifact; of the artifact that is open,   *)
(* only the first disk_size bytes have left the stream buffer, and this is *)
(* the size stat() reports.  A write may or may not flush the buffer;      *)
(* truncate() and close() always do.                                       *)
(* Optional values: None is <<>>, a present value x is <<x>>.              *)
(***************************************************************************)
EXTENDS Integers, Sequences, FiniteSets, TLC

(***************************************************************************)
(* Bounds of the exploration.                                              *)
(***************************************************************************)
MaxEvents == 4
MaxBucketEvents == 2

(***************************************************************************)
(* Text helpers (Python str operations used by the source).                *)
(***************************************************************************)
None == <<>>

Some(x) == <<x>>

Whitespace == {" ", "\n", "\t", "\r"}

IsPrefix(p, s) == Len(p) <= Len(s) /\ SubSeq(s, 1, Len(p)) = p

EndsWith(s, suf) == Len(suf) <= Len(s) /\ SubSeq(s, Len(s) - Len(suf) + 1, Len(s)) = suf

SetMin(S) == CHOOSE x \in S : \A y \in S : x <= y

SetMax(S) == CHOOSE x \in S : \A y \in S : y <= x

\* str.strip()
Strip(s) ==
    LET keep == {i \in 1..Len(s) : s[i] \notin Whitespace}
    IN  IF keep = {} THEN <<>> ELSE SubSeq(s, SetMin(keep), SetMax(keep))

\* s[:n]
Take(s, n) == SubSeq(s, 1, IF Len(s) < n THEN Len(s) ELSE n)

RECURSIVE Replace(_, _, _)
\* str.replace(old, new): leftmost non-overlapping occurrences
Replace(s, old, new) ==
    LET found == {i \in 1..(Len(s) - Len(old) + 1) :
                     s[i] = old[1] /\ SubSeq(s, i, i + Len(old) - 1) = old}
    IN  IF found = {} THEN s
        ELSE LET i == SetMin(found)
             IN  SubSeq(s, 1, i - 1) \o new
                     \o Replace(SubSeq(s, i + Len(old), Len(s)), old, new)

RECURSIVE SplitLines(_)
\* str.split('\n')
SplitLines(s) ==
    LET nl == {i \in 1..Len(s) : s[i] = "\n"}
    IN  IF nl = {} THEN <<s>>
        ELSE LET i == SetMin(nl)
             IN  <<SubSeq(s, 1, i - 1)>> \o SplitLines(SubSeq(s, i + 1, Len(s)))

RECURSIVE Concat(_)
Concat(ss) == IF ss = <<>> THEN <<>> ELSE Head(ss) \o Concat(Tail(ss))

LowerLetters ==
    <<"a","b","c","d","e","f","g","h","i","j","k","l","m","n","o","p","q","r","s","t","u","v",
      "w","x","y","z">>

UpperLetters ==
    <<"A","B","C","D","E","F","G","H","I","J","K","L","M","N","O","P","Q","R","S","T","U","V",
      "W","X","Y","Z">>

Digits == <<"0","1","2","3","4","5","6","7","8","9">>

Range(s) == {s[i] : i \in 1..Len(s)}

\* str.isalnum on one character
IsAlnum(c) == c \in Range(LowerLetters) \cup Range(UpperLetters) \cup Range(Digits)

\* str.upper on one character
UpperChar(c) ==
    IF c \in Range(LowerLetters)
    THEN UpperLetters[CHOOSE i \in 1..Len(LowerLetters) : LowerLetters[i] = c]
    ELSE c

\* variant: nothing is filtered out
FilterAlnum_all(s) == s

\* "".join(filter(str.isalnum, s))
FilterAlnum(s) == SelectSeq(s, IsAlnum)

\* str.upper()
Upper(s) == [i \in 1..Len(s) |-> UpperChar(s[i])]

(***************************************************************************)
(* Literals of the source.                                                 *)
(***************************************************************************)
PeppolNs ==
    <<"h","t","t","p",":","/","/","w","w","w",".","p","e","p","p","o","l",".","e","u","/","s",
      "c","h","e","m","a","/","p","d","/","b","u","s","i","n","e","s","s","c","a","r","d","-",
      "g","e","n","e","r","i","c","/","2","0","1","9","0","7","/">>

XmlDeclaration ==
    <<"<","?","x","m","l"," ","v","e","r","s","i","o","n","=","\"","1",".","0","\""," ","e","n",
      "c","o","d","i","n","g","=","\"","U","T","F","-","8","\"","?",">","\n">>

RootOpen ==
    <<"<","r","o","o","t"," ","x","m","l","n","s","=","\"">> \o PeppolNs
        \o <<"\""," ","v","e","r","s","i","o","n","=","\"","2","\"",">","\n">>

Header == XmlDeclaration \o RootOpen

CloseTag == <<"<","/","r","o","o","t",">","\n">>

Businesscard == <<"b","u","s","i","n","e","s","s","c","a","r","d">>

XmlnsNs0Decl == <<" ","x","m","l","n","s",":","n","s","0","=","\"">> \o PeppolNs \o <<"\"">>

XmlnsDecl == <<" ","x","m","l","n","s","=","\"">> \o PeppolNs \o <<"\"">>

Ns0Prefix == <<"n","s","0",":">>

CountryKey == <<"c","o","u","n","t","r","y","_">>

DateKey == <<"d","a","t","e","_">>

Bucket2000 == <<"2","0","0","0","-">>

Unknown == <<"U","N","K","N","O","W","N">>

(***************************************************************************)
(* Input elements.  An element carries what the extractors look at: its    *)
(* tag, the first namespace-qualified and the first unqualified entity and *)
(* regdate descendants, and the text ET.tostring gives for it.  An entity  *)
(* has an optional countrycode attribute and optional name children (each  *)
(* with an optional name attribute); a regdate is its text ("" when the    *)
(* element has no text).                                                   *)
(***************************************************************************)
Str_Foo == <<"F","o","o"," ","L","t","d">>

Str_Acme == <<"A","c","m","e","5"," ","C","o","r","p","!">>

Str_Bangs == <<"!","!","!">>

Str_ab == <<"a","b">>

Str_BE == <<"B","E">>

Str_NL == <<"N","L">>

Date_Day == <<"2","0","2","3","-","0","5","-","0","1">>

Date_Stamp == <<"2","0","2","3","-","0","5","-","0","1","T","1","0",":","0","0",":","0","0","Z">>

Date_Padded == <<"\n"," "," ","2","0","2","4","-","0","1","-","3","1","\n">>

Date_Month == <<"2","0","2","3","-","0","5">>

Date_PaddedMonth == <<" ","2","0","2","3","-","0","5"," ","\n"," "," ">>

NsTag(local) == <<"{">> \o PeppolNs \o <<"}">> \o local

Xml_BeNs ==
    <<"<","n","s","0",":","b","u","s","i","n","e","s","s","c","a","r","d">> \o XmlnsNs0Decl
      \o <<">","\n"," "," ","<","n","s","0",":","e","n","t","i","t","y"," ","c","o","u","n","t",
           "r","y","c","o","d","e","=","\"","B","E","\""," ","/",">","\n","<","/","n","s","0",":",
           "b","u","s","i","n","e","s","s","c","a","r","d",">","\n">>

Xml_BeFoo ==
    <<"<","b","u","s","i","n","e","s","s","c","a","r","d",">","\n"," "," ","<","e","n","t","i",
      "t","y"," ","c","o","u","n","t","r","y","c","o","d","e","=","\"","B","E","\"",">","\n",
      " "," "," "," ","<","n","a","m","e"," ","n","a","m","e","=","\"","F","o","o"," ","L","t",
      "d","\""," ","/",">","\n","\n"," "," ","<","/","e","n","t","i","t","y",">","\n","<","/",
      "b","u","s","i","n","e","s","s","c","a","r","d",">","\n"," "," ">>

Xml_Nl ==
    <<"<","b","u","s","i","n","e","s","s","c","a","r","d",">","<","e","n","t","i","t","y"," ",
      "c","o","u","n","t","r","y","c","o","d","e","=","\"","N","L","\""," ","/",">","<","/","b",
      "u","s","i","n","e","s","s","c","a","r","d",">">>

Xml_Bare == <<"<","b","u","s","i","n","e","s","s","c","a","r","d"," ","/",">">>

Entity(cc, ns_name, name) == [countrycode |-> cc, ns_name |-> ns_name, name |-> name]

Element(tag, ns_entity, entity, ns_regdate, regdate, xml) ==
    [tag |-> tag, ns_entity |-> ns_entity, entity |-> entity,
     ns_regdate |-> ns_regdate, regdate |-> regdate, xml |-> xml]

\* a business card without namespace: countrycode cc, name child nm, regdate rd
Card(cc, nm, rd, xml) == Element(Businesscard, None, Some(Entity(cc, None, nm)), None, rd, xml)

\* the value of elem outside the loop body
NoElem == Element(<<>>, None, None, None, None, <<>>)

ElemRoot == Element(NsTag(<<"r","o","o","t">>), None, None, None, None, <<>>)

ElemBeNs ==
    Element(NsTag(Businesscard), Some(Entity(Some(Str_BE), None, None)), None,
            Some(Date_Day), None, Xml_BeNs)

ElemBeFoo == Card(Some(Str_BE), Some(Some(Str_Foo)), None, Xml_BeFoo)

ElemNl == Card(Some(Str_NL), None, Some(Date_Stamp), Xml_Nl)

ElemNoEntity == Element(Businesscard, None, None, None, Some(Date_Day), Xml_Bare)

ElemNoCode == Card(None, Some(Some(Str_Foo)), None, Xml_Bare)

ElemEmptyCode == Card(Some(<<>>), None, Some(Date_Day), Xml_Bare)

\* the elements the input of a run is made of
Elems == {ElemRoot, ElemBeNs, ElemBeFoo, ElemNl, ElemNoEntity, ElemNoCode, ElemEmptyCode}

(***************************************************************************)
(* Record extractor.                                                       *)
(***************************************************************************)
\* variant: only None is false, the empty string counts as a value
Truthy_not_none(opt) == opt # None

\* Python truthiness of an Optional[str]
Truthy(opt) == opt # None /\ opt[1] # <<>>

extract_country(element) ==
    LET entity == IF element.ns_entity # None THEN element.ns_entity ELSE element.entity
    IN  IF entity # None THEN entity[1].countrycode ELSE None

extract_date(element) ==
    LET regdate == IF element.ns_regdate # None THEN element.ns_regdate ELSE element.regdate
    IN  IF regdate # None /\ regdate[1] # <<>>
        THEN LET date_str == Strip(regdate[1])
             IN  IF Len(date_str) >= 10 THEN Some(Take(date_str, 10)) ELSE None
        ELSE None

extract_entity_name(element) ==
    LET entity == IF element.ns_entity # None THEN element.ns_entity ELSE element.entity
    IN  IF entity # None
        THEN LET name_element == IF entity[1].ns_name # None THEN entity[1].ns_name
                                 ELSE entity[1].name
             IN  IF name_element # None THEN name_element[1] ELSE None
        ELSE None

element_to_string(element) ==
    Replace(Replace(Replace(element.xml, XmlnsNs0Decl, <<>>), XmlnsDecl, <<>>), Ns0Prefix, <<>>)

\* the date bucket of a record that has a country (lines 215-226)
date_bucket(element) ==
    LET date == extract_date(element)
        entity_name == extract_entity_name(element)
        safe_name == IF Truthy(entity_name)
                     THEN Upper(Take(FilterAlnum(entity_name[1]), 5))
                     ELSE <<>>
    IN  IF Truthy(date) THEN date[1]
        ELSE IF safe_name # <<>> THEN Bucket2000 \o safe_name
        ELSE Bucket2000 \o Unknown

NonBlank(line) == Strip(line) # <<>>

IndentLine(line) == <<" ", " ">> \o line \o <<"\n">>

\* the bytes the write loop appends for one record (lines 269-272)
record_fragment(element) ==
    LET lines == SelectSeq(SplitLines(element_to_string(element)), NonBlank)
    IN  Concat([i \in 1..Len(lines) |-> IndentLine(lines[i])])

(***************************************************************************)
(* State.                                                                  *)
(***************************************************************************)
VARIABLES
    fs,                   \* the extracts tree: artifact path -> bytes of the file
    open_files,           \* paths on which an open file handle exists
    disk_size,            \* bytes of the open artifact that are on disk (0 when none is open)
    input_exists,         \* whether the input file of the run exists
    max_bytes,            \* self.max_bytes
    file_stats,           \* self.file_stats: country -> [sequence]
    stats,                \* self.stats: key -> count (a defaultdict(int))
    file_count,           \* self.file_count
    pc,                   \* position of the control flow
    events,               \* elements iterparse has yielded so far, over all runs
    elem,                 \* the element of the current iteration
    processed_cards,      \* local of process_xml
    current_file_handle,  \* local: None or <<[path, closed]>>
    current_file_path,    \* local: None or <<path>>
    date,                 \* local: the date bucket of the current record
    output_path,          \* local: the candidate path of the current record
    raised,               \* the exception unwinding through the finally block
    outcome,              \* how the last process_xml call ended
    in_sync,              \* whether process_xml is called from sync
    sync_result,          \* None, or <<value returned by sync>>
    run_start_paths,      \* history: the artifacts that existed when the run started
    routed,               \* history: country -> the serialized records of it the run read
    unrouted              \* history: number of business cards without a country the run read

vars ==
    <<fs, open_files, disk_size, input_exists, max_bytes, file_stats, stats, file_count, pc,
      events, elem, processed_cards, current_file_handle, current_file_path, date, output_path,
      raised, outcome, in_sync, sync_result, run_start_paths, routed, unrouted>>

\* the instance attributes the routing uses, and the locals of process_xml
instance_vars == <<max_bytes, file_stats, stats, file_count>>

local_vars == <<processed_cards, current_file_handle, current_file_path, date, output_path>>

\* the state of the enclosing sync call
sync_vars == <<in_sync, sync_result>>

\* what the run has read so far, kept for the properties only
history_vars == <<run_start_paths, routed, unrouted>>

\* values of --max-bytes the runs are started with
MaxBytesChoices == {Len(Header) + 20, Len(Header) + 100}

\* extracts_dir / country / f"business-cards.{sequence:06d}.xml"
ArtifactPath(country, sequence) == [country |-> country, sequence |-> sequence]

\* output_path.stat().st_size
st_size(path) == IF path \in open_files THEN disk_size ELSE Len(fs[path])

\* the size on disk after a buffered write: the buffer is kept or flushed
AfterWrite(on_disk, written) == {on_disk, written}

\* variant: a record is counted twice
Increment_twice(d, key) ==
    IF key \in DOMAIN d THEN [d EXCEPT ![key] = @ + 2] ELSE d @@ (key :> 2)

\* defaultdict(int): d[key] += 1
Increment(d, key) ==
    IF key \in DOMAIN d THEN [d EXCEPT ![key] = @ + 1] ELSE d @@ (key :> 1)

\* variant: the entry is replaced when it exists
SetDefault_replace(d, key, value) ==
    [k \in DOMAIN d \cup {key} |-> IF k = key THEN value ELSE d[k]]

\* dict.setdefault(key, value)
SetDefault(d, key, value) == IF key \in DOMAIN d THEN d ELSE d @@ (key :> value)

EmptyDict == [k \in {} |-> 0]

Handle(path, closed) == [path |-> path, closed |-> closed]

Init ==
    /\ fs = EmptyDict
    /\ open_files = {}
    /\ disk_size = 0
    /\ input_exists = TRUE
    /\ max_bytes = 1000000
    /\ file_stats = EmptyDict
    /\ stats = EmptyDict
    /\ file_count = 0
    /\ pc = "start"
    /\ events = 0
    /\ elem = NoElem
    /\ processed_cards = 0
    /\ current_file_handle = None
    /\ current_file_path = None
    /\ date = None
    /\ output_path = None
    /\ raised = "none"
    /\ outcome = "none"
    /\ in_sync = FALSE
    /\ sync_result = None
    /\ run_start_paths = {}
    /\ routed = EmptyDict
    /\ unrouted = 0

(***************************************************************************)
(* A run: a new process constructs a PeppolSync over the extracts tree the *)
(* earlier runs left, and calls process_xml once.                          *)
(***************************************************************************)
\* PeppolSync.__init__, in a process started with --max-bytes mb while the
\* input file exists or not
Construct(mb, exists) ==
    /\ pc \in {"start", "exited", "sync_exited", "sync_raised"}
    /\ pc = "exited" => ~in_sync
    /\ input_exists' = exists
    /\ max_bytes' = mb
    /\ file_stats' = EmptyDict
    /\ stats' = EmptyDict
    /\ file_count' = 0
    /\ pc' = "constructed"
    /\ elem' = NoElem
    /\ processed_cards' = 0
    /\ current_file_handle' = None
    /\ current_file_path' = None
    /\ date' = None
    /\ output_path' = None
    /\ raised' = "none"
    /\ outcome' = "none"
    /\ in_sync' = FALSE
    /\ sync_result' = None
    /\ run_start_paths' = DOMAIN fs
    /\ routed' = EmptyDict
    /\ unrouted' = 0
    /\ UNCHANGED <<fs, open_files, disk_size, events>>

\* variant: the existence test is left out
input_missing_never(exists) == FALSE

\* the test of line 192
input_missing(exists) == ~exists

\* process_xml up to the try statement (lines 187-202)
process_xml ==
    /\ pc \in {"constructed", "sync_call"}
    /\ IF input_missing(input_exists)
       THEN /\ pc' = "exited"
            /\ outcome' = "FileNotFoundError"
            /\ UNCHANGED local_vars
       ELSE /\ pc' = "loop"
            /\ processed_cards' = 0
            /\ current_file_handle' = None
            /\ current_file_path' = None
            /\ UNCHANGED <<date, output_path, outcome>>
    /\ UNCHANGED <<fs, open_files, disk_size, input_exists, instance_vars, events, elem,
                   raised>>
    /\ UNCHANGED <<sync_vars, history_vars>>

(***************************************************************************)
(* The input as the run reads it, recorded for the properties: a business  *)
(* card with a country (an entity with a non-empty countrycode) is a       *)
(* record to route, any other business card is a record to drop.           *)
(***************************************************************************)
Routed(e) ==
    /\ EndsWith(e.tag, Businesscard)
    /\ \/ e.ns_entity # None /\ e.ns_entity[1].countrycode \notin {None, Some(<<>>)}
       \/ e.ns_entity = None /\ e.entity # None
            /\ e.entity[1].countrycode \notin {None, Some(<<>>)}

\* a business card no country can be read from: no entity, no countrycode
\* attribute, or an empty countrycode
WithoutCountry(e) == EndsWith(e.tag, Businesscard) /\ ~Routed(e)

\* the country of a record to route
CountryOf(e) ==
    IF e.ns_entity # None THEN e.ns_entity[1].countrycode[1] ELSE e.entity[1].countrycode[1]

\* the history after the run has read e
Read(history, e) ==
    IF ~Routed(e) THEN history
    ELSE IF CountryOf(e) \in DOMAIN history
         THEN [history EXCEPT ![CountryOf(e)] = Append(@, e.xml)]
         ELSE history @@ (CountryOf(e) :> <<e.xml>>)

\* the for statement yields the next element (line 205)
NextElement(e) ==
    /\ pc = "loop"
    /\ events < MaxEvents
    /\ events' = events + 1
    /\ elem' = e
    /\ pc' = "elem"
    /\ routed' = Read(routed, e)
    /\ unrouted' = IF WithoutCountry(e) THEN unrouted + 1 ELSE unrouted
    /\ UNCHANGED <<fs, open_files, disk_size, input_exists, instance_vars, local_vars, raised,
                   outcome, sync_vars, run_start_paths>>

\* the for statement ends: the input is exhausted
EndOfInput ==
    /\ pc = "loop"
    /\ raised' = "none"
    /\ pc' = "finally"
    /\ UNCHANGED <<fs, open_files, disk_size, input_exists, instance_vars, local_vars, events,
                   elem, outcome>>
    /\ UNCHANGED <<sync_vars, history_vars>>

\* the for statement raises: iterparse meets malformed input
ParseError ==
    /\ pc = "loop"
    /\ raised' = "ParseError"
    /\ pc' = "finally"
    /\ UNCHANGED <<fs, open_files, disk_size, input_exists, instance_vars, local_vars, events,
                   elem, outcome>>
    /\ UNCHANGED <<sync_vars, history_vars>>

\* the run is interrupted between two records
Interrupt ==
    /\ pc = "loop"
    /\ raised' = "KeyboardInterrupt"
    /\ pc' = "finally"
    /\ UNCHANGED <<fs, open_files, disk_size, input_exists, instance_vars, local_vars, events,
                   elem, outcome>>
    /\ UNCHANGED <<sync_vars, history_vars>>

(***************************************************************************)
(* The loop body: one element (lines 206-279).                             *)
(***************************************************************************)
\* variant: every existing artifact is rolled over
needs_rollover_always(path) == path \in DOMAIN fs

\* the rollover test of line 237
needs_rollover(path) == path \in DOMAIN fs /\ st_size(path) > max_bytes

\* variant: a rollover skips a sequence number
next_sequence_skip(sequence) == sequence + 2

\* the sequence number after a rollover (line 238)
next_sequence(sequence) == sequence + 1

\* variant: the artifact is chosen by country and date bucket
route_dated(country, bucket, counts, states) ==
    LET created == SetDefault(states, country, [sequence |-> 1])
        first_path == ArtifactPath(country \o bucket, created[country].sequence)
        rolled == IF needs_rollover(first_path)
                  THEN [created EXCEPT ![country].sequence = next_sequence(@)]
                  ELSE created
    IN  [file_stats |-> rolled,
         output_path |-> ArtifactPath(country \o bucket, rolled[country].sequence)]

\* lines 231-239: the CountryState and the candidate path of a record, with the
\* values in scope there: its country, its date bucket, self.stats and
\* self.file_stats
route(country, bucket, counts, states) ==
    LET created == SetDefault(states, country, [sequence |-> 1])
        first_path == ArtifactPath(country, created[country].sequence)
        rolled == IF needs_rollover(first_path)
                  THEN [created EXCEPT ![country].sequence = next_sequence(@)]
                  ELSE created
    IN  [file_stats |-> rolled,
         output_path |-> ArtifactPath(country, rolled[country].sequence)]

\* lines 206-242: count, extract, statistics, CountryState and candidate path
HandleElement ==
    /\ pc = "elem"
    /\ IF ~EndsWith(elem.tag, Businesscard)
       THEN /\ pc' = "loop"
            /\ elem' = NoElem
            /\ UNCHANGED <<instance_vars, local_vars>>
       ELSE LET country == extract_country(elem)
            IN  /\ processed_cards' = processed_cards + 1
                /\ IF ~Truthy(country)
                   THEN /\ pc' = "loop"
                        /\ elem' = NoElem
                        /\ UNCHANGED <<instance_vars, current_file_handle, current_file_path,
                                       date, output_path>>
                   ELSE LET c == country[1]
                            bucket == date_bucket(elem)
                            counts == Increment(Increment(stats, CountryKey \o c),
                                                DateKey \o bucket)
                            routing == route(c, bucket, counts, file_stats)
                        IN  /\ stats' = counts
                            /\ date' = Some(bucket)
                            /\ file_stats' = routing.file_stats
                            /\ output_path' = Some(routing.output_path)
                            /\ pc' = IF Some(routing.output_path) # current_file_path
                                     THEN "close_prev" ELSE "write"
                            /\ UNCHANGED <<max_bytes, file_count, current_file_handle,
                                           current_file_path, elem>>
    /\ UNCHANGED <<fs, open_files, disk_size, input_exists, events, raised, outcome>>
    /\ UNCHANGED <<sync_vars, history_vars>>

\* variant: the closing tag is not written
write_closing_tag_none(content) == content

\* handle.write('</root>\n') of lines 245 and 284
write_closing_tag(content) == content \o CloseTag

\* variant: the handle is never released
close_leak(files, path) == files

\* file.close(): the handle is released
close(files, path) == files \ {path}

\* lines 244-246: close the previously open artifact
ClosePrevious ==
    /\ pc = "close_prev"
    /\ IF current_file_handle = None
       THEN /\ pc' = "open"
            /\ UNCHANGED <<fs, open_files, disk_size, current_file_handle, raised>>
       ELSE LET h == current_file_handle[1]
            IN  IF h.closed
                THEN /\ pc' = "finally"
                     /\ raised' = "ValueError"
                     /\ UNCHANGED <<fs, open_files, disk_size, current_file_handle>>
                ELSE /\ fs' = [fs EXCEPT ![h.path] = write_closing_tag(@)]
                     /\ open_files' = close(open_files, h.path)
                     /\ disk_size' = 0
                     /\ current_file_handle' = Some(Handle(h.path, TRUE))
                     /\ pc' = "open"
                     /\ UNCHANGED raised
    /\ UNCHANGED <<input_exists, instance_vars, events, elem, processed_cards,
                   current_file_path,
                   date, output_path, outcome>>
    /\ UNCHANGED <<sync_vars, history_vars>>

\* variant: a created artifact is not counted
count_created_none(count) == count

\* self.file_count += 1 (line 257)
count_created(count) == count + 1

\* lines 251-257 and 266: the candidate does not exist, create it with its header
CreateArtifact ==
    /\ pc = "open"
    /\ output_path[1] \notin DOMAIN fs
    /\ fs' = fs @@ (output_path[1] :> Header)
    /\ open_files' = open_files \cup {output_path[1]}
    /\ disk_size' \in AfterWrite(0, Len(Header))
    /\ current_file_handle' = Some(Handle(output_path[1], FALSE))
    /\ file_count' = count_created(file_count)
    /\ current_file_path' = output_path
    /\ pc' = "write"
    /\ UNCHANGED <<input_exists, max_bytes, file_stats, stats, events, elem, processed_cards,
                   date, output_path, raised, outcome>>
    /\ UNCHANGED <<sync_vars, history_vars>>

\* variant: the newline of the closing tag is not counted
truncate_position_short(size) == size - Len(<<"<","/","r","o","o","t",">">>)

\* the offset the reopened artifact is cut at (line 262)
truncate_position(size) == size - Len(CloseTag)

\* lines 258-266: the candidate exists, reopen it and cut the closing tag;
\* seek() raises ValueError on a negative position, the handle being assigned already
ReopenArtifact ==
    /\ pc = "open"
    /\ output_path[1] \in DOMAIN fs
    /\ open_files' = open_files \cup {output_path[1]}
    /\ current_file_handle' = Some(Handle(output_path[1], FALSE))
    /\ LET position == truncate_position(st_size(output_path[1]))
       IN  IF position < 0
           THEN /\ raised' = "ValueError"
                /\ pc' = "finally"
                /\ disk_size' = st_size(output_path[1])
                /\ UNCHANGED <<fs, current_file_path>>
           ELSE /\ fs' = [fs EXCEPT ![output_path[1]] = SubSeq(@, 1, position)]
                /\ disk_size' = position
                /\ current_file_path' = output_path
                /\ pc' = "write"
                /\ UNCHANGED raised
    /\ UNCHANGED <<input_exists, instance_vars, events, elem, processed_cards, date,
                   output_path,
                   outcome>>
    /\ UNCHANGED <<sync_vars, history_vars>>

\* mkdir() or open() of lines 252-253 and 260 raises OSError
OpenFails ==
    /\ pc = "open"
    /\ raised' = "OSError"
    /\ pc' = "finally"
    /\ UNCHANGED <<fs, open_files, disk_size, input_exists, instance_vars, local_vars, events,
                   elem, outcome>>
    /\ UNCHANGED <<sync_vars, history_vars>>

\* variant: the record is not written
append_record_lost(content, fragment) == content

\* the write calls of lines 270-272 append the lines of the record
append_record(content, fragment) == content \o fragment

\* lines 268-279: append the record; elem, date and output_path are not read
\* again before the next iteration assigns them
WriteRecord ==
    /\ pc = "write"
    /\ fs' = [fs EXCEPT ![current_file_handle[1].path] =
                             append_record(@, record_fragment(elem))]
    /\ disk_size' \in AfterWrite(disk_size, Len(fs'[current_file_handle[1].path]))
    /\ elem' = NoElem
    /\ date' = None
    /\ output_path' = None
    /\ pc' = "loop"
    /\ UNCHANGED <<open_files, input_exists, instance_vars, events, processed_cards,
                   current_file_handle, current_file_path, raised, outcome>>
    /\ UNCHANGED <<sync_vars, history_vars>>

\* variant: no finalization
must_finalize_never(handle) == FALSE

\* the guard of the finally block (line 283)
must_finalize(handle) == handle # None

\* lines 281-285: close the last open artifact, then return or re-raise;
\* write() on a closed handle raises ValueError in place of the pending exception
Finalize ==
    /\ pc = "finally"
    /\ IF must_finalize(current_file_handle)
       THEN LET h == current_file_handle[1]
            IN  IF h.closed
                THEN /\ outcome' = "ValueError"
                     /\ UNCHANGED <<fs, open_files, disk_size, current_file_handle>>
                ELSE /\ fs' = [fs EXCEPT ![h.path] = write_closing_tag(@)]
                     /\ open_files' = close(open_files, h.path)
                     /\ disk_size' = 0
                     /\ current_file_handle' = Some(Handle(h.path, TRUE))
                     /\ outcome' = IF raised = "none" THEN "returned" ELSE raised
       ELSE /\ outcome' = IF raised = "none" THEN "returned" ELSE raised
            /\ UNCHANGED <<fs, open_files, disk_size, current_file_handle>>
    /\ pc' = "exited"
    /\ UNCHANGED <<input_exists, instance_vars, events, elem, processed_cards,
                   current_file_path,
                   date, output_path, raised>>
    /\ UNCHANGED <<sync_vars, history_vars>>

Next ==
    \/ \E mb \in MaxBytesChoices, exists \in BOOLEAN : Construct(mb, exists)
    \/ process_xml
    \/ \E e \in Elems : NextElement(e)
    \/ EndOfInput
    \/ ParseError
    \/ Interrupt
    \/ HandleElement
    \/ ClosePrevious
    \/ CreateArtifact
    \/ ReopenArtifact
    \/ OpenFails
    \/ WriteRecord
    \/ Finalize

Spec == Init /\ [][Next]_vars

(***************************************************************************)
(* sync: download the export unless it is there, call process_xml, and     *)
(* turn what it raises into the returned status (lines 297-332).           *)
(***************************************************************************)
\* download_xml (lines 67-124): the file of an earlier download is used unless
\* force is set; otherwise the export is fetched, which succeeds or raises
download_xml(exists, force, fetched) ==
    IF exists /\ ~force THEN "existing" ELSE IF fetched THEN "downloaded" ELSE "raised"

\* lines 297-313: sync up to the call of process_xml; a failed download
\* returns 1 (line 306)
sync(force, fetched) ==
    /\ pc = "constructed"
    /\ IF download_xml(input_exists, force, fetched) = "raised"
       THEN /\ sync_result' = Some(1)
            /\ pc' = "sync_exited"
            /\ UNCHANGED <<input_exists, in_sync>>
       ELSE /\ input_exists' = TRUE
            /\ in_sync' = TRUE
            /\ pc' = "sync_call"
            /\ UNCHANGED sync_result
    /\ UNCHANGED <<fs, open_files, disk_size, instance_vars, local_vars, events, elem, raised,
                   outcome, history_vars>>

\* variant: only the missing input is caught
caught_by_sync_narrow(exception) == exception = "FileNotFoundError"

\* except Exception (line 323): KeyboardInterrupt is not an Exception
caught_by_sync(exception) ==
    exception \in {"FileNotFoundError", "ParseError", "ValueError", "OSError"}

\* lines 313-329: process_xml has returned or raised; sync returns 0 or 1, or
\* lets the exception through
sync_return ==
    /\ pc = "exited"
    /\ in_sync
    /\ IF outcome = "returned"
       THEN sync_result' = Some(0) /\ pc' = "sync_exited"
       ELSE IF caught_by_sync(outcome)
            THEN sync_result' = Some(1) /\ pc' = "sync_exited"
            ELSE sync_result' = None /\ pc' = "sync_raised"
    /\ UNCHANGED <<fs, open_files, disk_size, input_exists, instance_vars, local_vars, events,
                   elem, raised, outcome, in_sync, history_vars>>

NextSync ==
    \/ Next
    \/ \E force \in BOOLEAN, fetched \in BOOLEAN : sync(force, fetched)
    \/ sync_return

SpecSync == Init /\ [][NextSync]_vars

(***************************************************************************)
(* Well-formed artifacts: the XML declaration and the opening root tag,    *)
(* complete record fragments, the closing root tag.                        *)
(***************************************************************************)
Fragments == {record_fragment(e) : e \in {x \in Elems : Routed(x)}}

RECURSIVE IsFragmentSeq(_)
IsFragmentSeq(s) ==
    \/ s = <<>>
    \/ \E f \in Fragments :
          IsPrefix(f, s) /\ IsFragmentSeq(SubSeq(s, Len(f) + 1, Len(s)))

\* the header followed by complete record fragments: an artifact being written
OpenForm(s) == IsPrefix(Header, s) /\ IsFragmentSeq(SubSeq(s, Len(Header) + 1, Len(s)))

\* number of places of s where t occurs
Occurrences(s, t) ==
    Cardinality({i \in 1..(Len(s) - Len(t) + 1) : SubSeq(s, i, i + Len(t) - 1) = t})

\* an artifact the program has closed
Intact(s) == EndsWith(s, CloseTag) /\ OpenForm(SubSeq(s, 1, Len(s) - Len(CloseTag)))

WellFormed(s) ==
    /\ Intact(s)
    /\ Occurrences(s, <<"<","/","r","o","o","t",">">>) = 1

(***************************************************************************)
(* Damage from outside the program: between two runs an artifact of an     *)
(* intact tree is cut short (a write that never completed).                *)
(***************************************************************************)
\* where the file is cut: inside the XML declaration, or before the closing tag
DamageCuts(n) == {k \in {3, n - Len(CloseTag)} : 0 <= k /\ k < n}

Damage(path, k) ==
    /\ pc \in {"start", "exited"}
    /\ path \in DOMAIN fs
    /\ k \in DamageCuts(Len(fs[path]))
    /\ \A p \in DOMAIN fs : Intact(fs[p])
    /\ fs' = [fs EXCEPT ![path] = SubSeq(@, 1, k)]
    /\ UNCHANGED <<open_files, disk_size, input_exists, instance_vars, local_vars, pc, events,
                   elem, raised, outcome>>
    /\ UNCHANGED <<sync_vars, history_vars>>

NextDamaged ==
    \/ Next
    \/ \E path \in DOMAIN fs : \E k \in DamageCuts(Len(fs[path])) : Damage(path, k)

SpecDamaged == Init /\ [][NextDamaged]_vars

(***************************************************************************)
(* The date bucket as a function of the record: runs whose business cards  *)
(* all have the country BE and range over names and registration dates.    *)
(***************************************************************************)
BucketNames ==
    {None, Some(None), Some(Some(<<>>)), Some(Some(Str_Bangs)), Some(Some(Str_ab)),
     Some(Some(Str_Foo)), Some(Some(Str_Acme))}

BucketDates ==
    {None, Some(<<>>), Some(Date_Month), Some(Date_PaddedMonth), Some(Date_Day),
     Some(Date_Stamp), Some(Date_Padded)}

BucketElems ==
    {Card(Some(Str_BE), nm, rd, Xml_Nl) : nm \in BucketNames, rd \in BucketDates}
        \cup {Element(NsTag(Businesscard), Some(Entity(Some(Str_BE), Some(Some(Str_Acme)), None)),
                      Some(Entity(Some(Str_NL), None, Some(Some(Str_Foo)))),
                      Some(Date_PaddedMonth), Some(Date_Day), Xml_BeNs)}

NextBucket ==
    \/ \E mb \in MaxBytesChoices, exists \in BOOLEAN : Construct(mb, exists)
    \/ process_xml
    \/ \E e \in BucketElems : events < MaxBucketEvents /\ NextElement(e)
    \/ EndOfInput
    \/ ParseError
    \/ Interrupt
    \/ HandleElement
    \/ ClosePrevious
    \/ CreateArtifact
    \/ ReopenArtifact
    \/ OpenFails
    \/ WriteRecord
    \/ Finalize

SpecBucket == Init /\ [][NextBucket]_vars

(***************************************************************************)
(* Properties.                                                             *)
(***************************************************************************)
LoopPcs == {"loop", "elem", "close_prev", "open", "write"}

\* C1: starting from an empty tree, after any number of runs, every artifact
\* that is not the one currently open is the XML declaration and one opening
\* root tag, then complete record fragments, then exactly one closing root tag
\* as its last bytes.
C1_ClosedArtifactsWellFormed ==
    \A p \in DOMAIN fs : p \notin open_files => WellFormed(fs[p])

\* a later run reopened an artifact of an earlier run and was stopped by a parse
\* error; an artifact holds two records
C1_Witness ==
    /\ pc = "exited"
    /\ outcome = "ParseError"
    /\ file_count = 0
    /\ current_file_handle # None
    /\ Cardinality(DOMAIN fs) >= 2
    /\ \E p \in DOMAIN fs : \E f \in Fragments, g \in Fragments :
          fs[p] = Header \o f \o g \o CloseTag

\* C2: at most one artifact is open at every point; when the router switches to
\* another candidate path, the closing root tag is written to the previously
\* open artifact and its handle closed before the candidate is created or
\* reopened.
C2_SingleOpenArtifact ==
    /\ Cardinality(open_files) <= 1
    /\ open_files # {} =>
          /\ current_file_handle # None
          /\ ~current_file_handle[1].closed
          /\ open_files = {current_file_handle[1].path}
    /\ pc = "open" =>
          /\ open_files = {}
          /\ current_file_handle # None =>
                /\ current_file_handle[1].closed
                /\ EndsWith(fs[current_file_handle[1].path], CloseTag)

\* the previous artifact has been closed and an existing candidate is about to
\* be reopened
C2_Witness ==
    /\ pc = "open"
    /\ current_file_handle # None
    /\ output_path[1] \in DOMAIN fs
    /\ output_path[1] # current_file_handle[1].path

\* C3: on every exit path of the loop (input exhausted, parse error, artifact
\* error, interrupt between records) the finally block runs, and if an artifact
\* is open it gets the closing root tag exactly once and its handle is closed
\* before process_xml returns or propagates the error.
C3_FinalizationOnEveryExit ==
    [][/\ (pc \in LoopPcs /\ pc' \notin LoopPcs) => pc' = "finally"
       /\ pc' = "exited" => open_files' = {}
       /\ (pc = "finally" /\ pc' # "finally") =>
             /\ pc' = "exited"
             /\ DOMAIN fs' = DOMAIN fs
             /\ \A p \in DOMAIN fs :
                   fs'[p] = IF p \in open_files THEN fs[p] \o CloseTag ELSE fs[p]]_vars

\* an interrupted run has returned with its artifact closed
C3_Witness ==
    /\ pc = "exited"
    /\ outcome = "KeyboardInterrupt"
    /\ current_file_handle # None
    /\ current_file_handle[1].closed
    /\ EndsWith(fs[current_file_handle[1].path], CloseTag)

StripClose(s) == IF EndsWith(s, CloseTag) THEN SubSeq(s, 1, Len(s) - Len(CloseTag)) ELSE s

\* C4: reopening an existing, closed, well-formed artifact removes exactly the
\* trailing closing root tag plus newline and leaves every byte before it
\* identical; what is written afterwards comes after the prior content, and
\* when the artifact is closed again it ends with exactly one closing root tag.
C4_ReopenCorrect ==
    [][/\ (/\ pc = "open"
           /\ output_path[1] \in DOMAIN fs
           /\ output_path[1] \in open_files'
           /\ WellFormed(fs[output_path[1]])) =>
             /\ pc' = "write"
             /\ fs = [fs' EXCEPT ![output_path[1]] = @ \o CloseTag]
             /\ OpenForm(fs'[output_path[1]])
       /\ \A p \in DOMAIN fs :
             p \in DOMAIN fs' /\ IsPrefix(StripClose(fs[p]), fs'[p])
       /\ \A p \in open_files \ open_files' : WellFormed(fs'[p])]_vars

\* a run that created no artifact has reopened an artifact an earlier run wrote
\* and closed, and is about to append after its records
C4_Witness ==
    /\ pc = "write"
    /\ file_count = 0
    /\ current_file_path # None
    /\ current_file_path[1] \in open_files
    /\ Len(fs[current_file_path[1]]) > Len(Header)
    /\ OpenForm(fs[current_file_path[1]])

Contiguous ==
    \A p \in DOMAIN fs : \A n \in 1..p.sequence : ArtifactPath(p.country, n) \in DOMAIN fs

\* C5: for every country the sequence numbers of its artifacts are exactly
\* 1..n, artifacts are created in strictly increasing sequence order and never
\* removed, and once a record is routed the current sequence number of its
\* country names an existing artifact.
C5_SequenceMonotonicity ==
    [][/\ Contiguous'
       /\ DOMAIN fs \subseteq DOMAIN fs'
       /\ \A p \in DOMAIN fs' \ DOMAIN fs : \A q \in DOMAIN fs :
             q.country = p.country => q.sequence < p.sequence
       /\ pc' \in {"write", "loop"} =>
             \A c \in DOMAIN file_stats' :
                 ArtifactPath(c, file_stats'[c].sequence) \in DOMAIN fs']_vars

\* a country has reached its third artifact
C5_Witness ==
    /\ pc = "loop"
    /\ \E c \in DOMAIN file_stats :
          /\ file_stats[c].sequence = 3
          /\ \A n \in 1..3 : ArtifactPath(c, n) \in DOMAIN fs

\* C6: a record is appended only to an artifact whose size before the append
\* does not exceed max_bytes, so that no artifact exceeds the maximum by more
\* than one record, also in a run on a tree an earlier run left.
C6_AppendWithinBound ==
    pc = "write" => Len(fs[current_file_handle[1].path]) <= max_bytes

\* the artifact a handle has just been opened on without the path being
\* recorded: the reopen failed
FailedReopen ==
    /\ pc = "finally"
    /\ current_file_handle # None
    /\ ~current_file_handle[1].closed
    /\ Some(current_file_handle[1].path) # current_file_path

\* C7: reopening an existing artifact whose last bytes are not the closing root
\* tag plus newline fails with an error, and neither the failed reopen nor the
\* finalization that follows changes a byte of the artifact.
C7_BadArtifactUntouched ==
    [][/\ (/\ pc = "open"
           /\ output_path[1] \in DOMAIN fs
           /\ output_path[1] \in open_files'
           /\ ~EndsWith(fs[output_path[1]], CloseTag)) =>
             /\ pc' = "finally"
             /\ raised' # "none"
             /\ fs' = fs
       /\ FailedReopen => fs' = fs]_vars

\* C8: processing a record without a resolvable country adds one to the count
\* of processed records and changes nothing else: no artifact, handle, current
\* path, statistic, sequence number or output-file counter.
C8_ExclusionFrame ==
    [][(pc = "elem" /\ WithoutCountry(elem)) =>
          /\ processed_cards' = processed_cards + 1
          /\ pc' = "loop"
          /\ UNCHANGED <<fs, open_files, disk_size, current_file_handle, current_file_path,
                         stats,
                         file_stats, file_count>>]_vars

\* two records were processed while an artifact is open, and only one of them
\* was counted for a country and a date
C8_Witness ==
    /\ pc = "loop"
    /\ processed_cards = 2
    /\ open_files # {}
    /\ Cardinality(DOMAIN stats) = 2
    /\ \A k \in DOMAIN stats : stats[k] = 1
    /\ \E p \in DOMAIN fs : \E f \in Fragments : fs[p] = Header \o f

\* C9: when the input path does not exist, process_xml fails before streaming:
\* no artifact is created, opened or modified, no CountryState is created and
\* the counters keep their values.
C9_MissingInput ==
    [][(pc = "constructed" /\ ~input_exists) =>
          /\ pc' = "exited"
          /\ outcome' = "FileNotFoundError"
          /\ UNCHANGED <<fs, open_files, disk_size, file_stats, stats, file_count,
                         processed_cards,
                         current_file_handle, current_file_path>>]_vars

\* a run on a tree of earlier runs failed on its missing input
C9_Witness ==
    /\ pc = "exited"
    /\ outcome = "FileNotFoundError"
    /\ DOMAIN fs # {}
    /\ open_files = {}
    /\ file_stats = EmptyDict
    /\ stats = EmptyDict
    /\ file_count = 0

\* the text of the registration date of a record ("" when there is none)
DateText(e) ==
    LET regdate == IF e.ns_regdate # None THEN e.ns_regdate ELSE e.regdate
    IN  IF regdate = None THEN <<>> ELSE regdate[1]

RECURSIVE FirstAlnum(_, _)
\* the first n alphanumeric characters of s
FirstAlnum(s, n) ==
    IF n = 0 \/ s = <<>> THEN <<>>
    ELSE IF IsAlnum(Head(s)) THEN <<Head(s)>> \o FirstAlnum(Tail(s), n - 1)
    ELSE FirstAlnum(Tail(s), n)

FallbackBucket(e) ==
    LET name == extract_entity_name(e)
        five == IF name = None THEN <<>> ELSE FirstAlnum(name[1], 5)
    IN  IF five = <<>> THEN <<"2","0","0","0","-","U","N","K","N","O","W","N">>
        ELSE <<"2","0","0","0","-">> \o Upper(five)

\* the record of the current iteration has a country and its bucket is computed
Bucketed == pc \in {"close_prev", "open", "write"}

\* C10 as stated: a date text of at least 10 characters is bucketed under its
\* first 10 characters, any other record under "2000-" and the first five
\* alphanumeric characters of the entity name uppercased, or "2000-UNKNOWN".
C10_BucketByRawText ==
    Bucketed =>
        /\ date # None
        /\ date[1] = IF Len(DateText(elem)) >= 10 THEN Take(DateText(elem), 10)
                     ELSE FallbackBucket(elem)

\* C10, amended: the length test and the first 10 characters are those of the
\* date text with surrounding whitespace stripped; a record without such a date
\* is counted under "2000-" and the first five alphanumeric characters of the
\* entity name uppercased ("Acme5 Corp!" gives "2000-ACME5", "Foo Ltd" gives
\* "2000-FOOLT"), or under "2000-UNKNOWN" when the name is absent, empty or has
\* no alphanumeric character.
C10_FallbackBucket ==
    Bucketed =>
        /\ date # None
        /\ DateKey \o date[1] \in DOMAIN stats
        /\ date[1] = IF Len(Strip(DateText(elem))) >= 10 THEN Take(Strip(DateText(elem)), 10)
                     ELSE FallbackBucket(elem)
        /\ (Len(Strip(DateText(elem))) < 10 /\ extract_entity_name(elem) = Some(Str_Acme)) =>
              date[1] = <<"2","0","0","0","-","A","C","M","E","5">>
        /\ (Len(Strip(DateText(elem))) < 10 /\ extract_entity_name(elem) = Some(Str_Foo)) =>
              date[1] = <<"2","0","0","0","-","F","O","O","L","T">>
        /\ (Len(Strip(DateText(elem))) < 10
              /\ extract_entity_name(elem) \in {None, Some(<<>>), Some(Str_Bangs)}) =>
              date[1] = <<"2","0","0","0","-","U","N","K","N","O","W","N">>

\* a record named "Acme5 Corp!" whose date text is long but blank-padded is
\* counted under "2000-ACME5"
C10_Witness ==
    /\ pc = "write"
    /\ extract_entity_name(elem) = Some(Str_Acme)
    /\ Len(DateText(elem)) >= 10
    /\ date = Some(<<"2","0","0","0","-","A","C","M","E","5">>)
    /\ stats[DateKey \o date[1]] = 1

RECURSIVE SumOver(_, _)
\* the sum of d[k] over the keys k of the set keys
SumOver(d, keys) ==
    IF keys = {} THEN 0
    ELSE LET k == CHOOSE x \in keys : TRUE
         IN  d[k] + SumOver(d, keys \ {k})

CountryKeys(d) == {k \in DOMAIN d : IsPrefix(CountryKey, k)}

DateKeys(d) == {k \in DOMAIN d : IsPrefix(DateKey, k)}

RECURSIVE TotalLen(_, _)
\* the number of elements of the sequences h[k], k in keys
TotalLen(h, keys) ==
    IF keys = {} THEN 0
    ELSE LET k == CHOOSE x \in keys : TRUE
         IN  Len(h[k]) + TotalLen(h, keys \ {k})

\* the statistics agree with what the run has read
StatsConsistent ==
    /\ DOMAIN stats = CountryKeys(stats) \cup DateKeys(stats)
    /\ CountryKeys(stats) = {CountryKey \o c : c \in DOMAIN routed}
    /\ \A c \in DOMAIN routed : stats[CountryKey \o c] = Len(routed[c])
    /\ SumOver(stats, CountryKeys(stats)) = TotalLen(routed, DOMAIN routed)
    /\ SumOver(stats, DateKeys(stats)) = TotalLen(routed, DOMAIN routed)
    /\ processed_cards = TotalLen(routed, DOMAIN routed) + unrouted

\* the keys whose count the step changes
Counted == {k \in DOMAIN stats' : k \notin DOMAIN stats \/ stats'[k] # stats[k]}

\* C11: the per-country counts and the per-date-bucket counts both sum to the
\* number of records with a country that were read, every such record adds one
\* to exactly one country count and to exactly one date-bucket count, and the
\* processed-records total is the number of business cards read, with or
\* without a country.
C11_StatisticsConsistency ==
    [][/\ pc' # "elem" => StatsConsistent'
       /\ (pc = "elem" /\ Routed(elem)) =>
             /\ Cardinality(Counted \cap CountryKeys(stats')) = 1
             /\ Cardinality(Counted \cap DateKeys(stats')) = 1
             /\ Cardinality(Counted) = 2
             /\ \A k \in Counted :
                   stats'[k] = IF k \in DOMAIN stats THEN stats[k] + 1 ELSE 1
       /\ (pc = "elem" /\ ~Routed(elem)) => stats' = stats]_vars

\* a run has returned after two records of BE, one dated and one named Foo Ltd
\* without a date, and one business card without a country
C11_Witness ==
    /\ pc = "exited"
    /\ outcome = "returned"
    /\ processed_cards = 3
    /\ unrouted = 1
    /\ file_count = 1
    /\ stats = (CountryKey \o Str_BE :> 2) @@ (DateKey \o Date_Day :> 1)
                  @@ (DateKey \o <<"2","0","0","0","-","F","O","O","L","T">> :> 1)

\* sync has just returned or let an exception through
SyncEnds == pc # pc' /\ pc' \in {"sync_exited", "sync_raised"}

\* C12: sync returns 0 only when the download step and process_xml both
\* completed without raising; when the download fails, or process_xml raises
\* for a missing input, malformed input or an artifact error, sync returns 1,
\* and in the processing failures no artifact is open any more and every
\* artifact ends with its closing tag when sync returns.
C12_SyncStatus ==
    [][SyncEnds =>
          /\ sync_result' = Some(0) =>
                /\ in_sync
                /\ pc = "exited"
                /\ outcome = "returned"
          /\ (pc = "constructed") => sync_result' = Some(1)
          /\ (pc = "exited"
                /\ outcome \in {"FileNotFoundError", "ParseError", "ValueError", "OSError"}) =>
                /\ sync_result' = Some(1)
                /\ open_files' = {}
                /\ \A p \in DOMAIN fs' : EndsWith(fs'[p], CloseTag)]_vars

\* sync has returned 1 after a parse error, the artifact that was open then
\* holding a record and its closing tag
C12_Witness ==
    /\ pc = "sync_exited"
    /\ sync_result = Some(1)
    /\ outcome = "ParseError"
    /\ current_file_handle # None
    /\ current_file_handle[1].closed
    /\ \E f \in Fragments : fs[current_file_handle[1].path] = Header \o f \o CloseTag

\* every artifact below the current sequence number of its country is larger
\* on disk than max_bytes
RolledOverLarge ==
    \A c \in DOMAIN file_stats : \A n \in 1..(file_stats[c].sequence - 1) :
        /\ ArtifactPath(c, n) \in DOMAIN fs
        /\ st_size(ArtifactPath(c, n)) > max_bytes

\* C13: the sequence number of a country moves only while a record is routed,
\* and only when an artifact exists at the current number whose size on disk
\* is greater than max_bytes at that moment; so every artifact below the
\* current number of its country is larger than max_bytes, and an artifact of
\* at most max_bytes is not rolled over.
C13_ReactiveRollover ==
    [][/\ \A c \in DOMAIN file_stats' :
             LET before == IF c \in DOMAIN file_stats THEN file_stats[c].sequence ELSE 1
             IN  file_stats'[c].sequence # before =>
                    /\ pc = "elem"
                    /\ Routed(elem) /\ CountryOf(elem) = c
                    /\ ArtifactPath(c, before) \in DOMAIN fs
                    /\ st_size(ArtifactPath(c, before)) > max_bytes
       /\ RolledOverLarge']_vars

\* the first record of a run meets an artifact of an earlier run that is
\* larger than max_bytes: its country is at sequence 2 before anything is
\* written
C13_Witness ==
    /\ pc = "open"
    /\ processed_cards = 1
    /\ \E c \in DOMAIN file_stats :
          /\ file_stats[c].sequence = 2
          /\ ArtifactPath(c, 1) \in run_start_paths
          /\ Len(fs[ArtifactPath(c, 1)]) > max_bytes
          /\ output_path = Some(ArtifactPath(c, 2))
          /\ ArtifactPath(c, 2) \notin DOMAIN fs

\* C14: the sequence number of a country is created by the first record of the
\* country in the run, with value 1 (2 when that same record rolls over at
\* once); it is never removed during the run and never decreases; a record
\* raises it by at most 1, exactly 1 on a rollover; routing a record of one
\* country leaves the sequence numbers of all other countries unchanged.
C14_CountryStateLifecycle ==
    [][pc' \notin {"constructed"} =>
          /\ DOMAIN file_stats \subseteq DOMAIN file_stats'
          /\ file_stats' # file_stats => pc = "elem" /\ Routed(elem)
          /\ \A c \in DOMAIN file_stats' \ DOMAIN file_stats :
                /\ c = CountryOf(elem)
                /\ routed[c] = <<elem.xml>>
                /\ file_stats'[c].sequence =
                      IF needs_rollover(ArtifactPath(c, 1)) THEN 2 ELSE 1
          /\ \A c \in DOMAIN file_stats :
                /\ file_stats'[c].sequence \in
                      {file_stats[c].sequence, file_stats[c].sequence + 1}
                /\ file_stats'[c].sequence = file_stats[c].sequence + 1 <=>
                      (/\ pc = "elem" /\ Routed(elem) /\ CountryOf(elem) = c
                       /\ needs_rollover(ArtifactPath(c, file_stats[c].sequence)))
                /\ (pc = "elem" /\ Routed(elem) /\ CountryOf(elem) # c) =>
                      file_stats'[c] = file_stats[c]]_vars

\* a run has routed records of two countries: one country is at sequence 2
\* after a rollover while the other is still at 1
C14_Witness ==
    /\ pc = "loop"
    /\ \E c \in DOMAIN file_stats, d \in DOMAIN file_stats :
          /\ c # d
          /\ file_stats[c].sequence = 2
          /\ file_stats[d].sequence = 1
          /\ Len(routed[c]) >= 2

\* C15: the output-file counter is the number of artifacts that exist now and
\* did not exist when the run started; creating an artifact (its header
\* written) adds exactly one, and reopening an existing artifact, of an earlier
\* run or closed earlier in this run, leaves the counter unchanged.
C15_FileCountCountsCreations ==
    [][/\ file_count' = Cardinality(DOMAIN fs' \ run_start_paths')
       /\ DOMAIN fs' # DOMAIN fs =>
             /\ pc = "open"
             /\ DOMAIN fs' = DOMAIN fs \cup {output_path[1]}
             /\ output_path[1] \notin DOMAIN fs
             /\ fs'[output_path[1]] = Header
             /\ file_count' = file_count + 1
       /\ (pc = "open" /\ output_path[1] \in DOMAIN fs) => file_count' = file_count]_vars

\* a run of three records has created one artifact, which holds two of them,
\* and reopened an artifact of an earlier run for the third
C15_Witness ==
    /\ pc = "loop"
    /\ file_count = 1
    /\ Cardinality(run_start_paths) = 1
    /\ Cardinality(DOMAIN fs) = 2
    /\ Cardinality(DOMAIN routed) = 2
    /\ processed_cards = 3
    /\ unrouted = 0
    /\ \E p \in DOMAIN fs \ run_start_paths : \E f \in Fragments, g \in Fragments :
          p \in open_files /\ fs[p] = Header \o f \o g

\* registration dates another run may give the same record: none, empty,
\* a day, a timestamp, a month
DateChoices == {None, Some(<<>>), Some(Date_Day), Some(Date_Stamp), Some(Date_Month)}

\* the records that differ from e in their dates only (same country, same
\* serialized text)
DateVariants(e) ==
    {[e EXCEPT !.ns_regdate = a, !.regdate = b] : a \in DateChoices, b \in DateChoices}

\* the statistics after a record of country c and date bucket b
Recorded(c, b) == Increment(Increment(stats, CountryKey \o c), DateKey \o b)

Body(s) == SubSeq(StripClose(s), Len(Header) + 1, Len(StripClose(s)))

\* the number of artifacts of country c
LastSequence(c) == SetMax({0} \cup {p.sequence : p \in {q \in DOMAIN fs : q.country = c}})

\* the bodies of the artifacts of country c in ascending sequence order
CountryBodies(c) == Concat([n \in 1..LastSequence(c) |-> Body(fs[ArtifactPath(c, n)])])

\* the fragment of a record whose serialized text is xml
FragmentOf(xml) == record_fragment([xml |-> xml])

\* the fragments of the records of country c in the order the run read them
CountryInput(c) == Concat([i \in 1..Len(routed[c]) |-> FragmentOf(routed[c][i])])

\* the end of a record fragment: the closing tag of the business card
CardEnd == <<"<","/","b","u","s","i","n","e","s","s","c","a","r","d",">","\n">>

\* C17: after a run that started from an empty tree and returned without an
\* error, for every country the record fragments of its artifacts, taken in
\* ascending sequence order, are the records of that country in input order,
\* each once; their number is the count of the country; no artifact exists
\* for a country without records.
C17_NoLossNoDuplication ==
    (pc = "exited" /\ outcome = "returned" /\ run_start_paths = {}) =>
        /\ {p.country : p \in DOMAIN fs} = DOMAIN routed
        /\ \A c \in DOMAIN routed :
              /\ CountryBodies(c) = CountryInput(c)
              /\ Occurrences(CountryBodies(c), CardEnd) = Len(routed[c])
              /\ stats[CountryKey \o c] = Len(routed[c])

\* a run from an empty tree has returned with three records of one country in
\* two artifacts, in input order
C17_Witness ==
    /\ pc = "exited"
    /\ outcome = "returned"
    /\ run_start_paths = {}
    /\ \E c \in DOMAIN routed :
          /\ Len(routed[c]) = 3
          /\ routed[c][1] # routed[c][2]
          /\ LastSequence(c) = 2
          /\ CountryBodies(c) = CountryInput(c)

\* C18: at every record boundary and at entry to the finally block, the
\* tracked handle, when there is one, is an open handle on exactly the tracked
\* current path, so that finalization never writes through a closed handle
\* or to an artifact other than the tracked one.
C18_TrackerAgreement ==
    (pc \in {"loop", "finally"} /\ current_file_handle # None) =>
        /\ ~current_file_handle[1].closed
        /\ current_file_handle[1].path \in open_files
        /\ current_file_path = Some(current_file_handle[1].path)

====
